---- MODULE Spec2Model ----
(***************************************************************************)
(* State-machine model of src/main.py: main() runs preprocessing(), which  *)
(* joins the GHI and PR record files into combined.csv, and then           *)
(* plotter(startDate, endDate), which selects a date window, computes the  *)
(* budget curve, the GHI colour bands and the share of points above the    *)
(* budget, and saves the chart.                                            *)
(*                                                                         *)
(* Encodings.  A date string "YYYY-MM-DD" is the integer YYYYMMDD.  A      *)
(* Timestamp is a record [year, month, day].  Python's None is the empty   *)
(* sequence and a present value x is <<x>>.  PR values and budgets are in  *)
(* tenths of a percent; a budget is the exact fraction num/den.            *)
(***************************************************************************)
EXTENDS Integers, Sequences, FiniteSets, TLC

VARIABLES ghiDir, prDir, argStart, argEnd, pc, combinedCsv, startDate,
          endDate, csvData, PR_30avg, Budget, colors, pointsAboveBudget,
          totalPoints, percTotalPoints, stdout, savedFig, raised

vars == <<ghiDir, prDir, argStart, argEnd, pc, combinedCsv, startDate,
          endDate, csvData, PR_30avg, Budget, colors, pointsAboveBudget,
          totalPoints, percTotalPoints, stdout, savedFig, raised>>

(***************************************************************************)
(* Bounds of the explored inputs.                                          *)
(***************************************************************************)
MaxFiles == 3

MaxGHI == 7

\* The calendar dates that occur in the record files and on the command line.
DateStrings == {20201115, 20210301, 20211120}

\* PR readings, in tenths of a percent, on both sides of the budget steps.
PRValues == {733, 734, 739, 740, 745}

GHIValues == 0 .. MaxGHI

None == << >>

Some(x) == <<x>>

(***************************************************************************)
(* Dates                                                                   *)
(***************************************************************************)
\* pd.to_datetime on a "YYYY-MM-DD" string
to_datetime(s) ==
    [year |-> s \div 10000, month |-> (s \div 100) % 100, day |-> s % 100]

\* the date text DataFrame.to_csv writes for a Timestamp
to_csv_date(t) == t.year * 10000 + t.month * 100 + t.day

\* position of a Timestamp on the time line, for <= and >= of Timestamps
Ordinal(t) == (t.year * 12 + (t.month - 1)) * 31 + (t.day - 1)

(***************************************************************************)
(* Sequence helpers that stand for the pandas primitives used              *)
(***************************************************************************)
RECURSIVE concat(_)
\* pd.concat of a non-empty list of frames: the rows of every frame in order
concat(frames) ==
    IF frames = << >> THEN << >>
    ELSE Head(frames) \o concat(Tail(frames))

RECURSIVE Insert(_, _)
Insert(row, sorted) ==
    IF sorted = << >> THEN <<row>>
    ELSE IF Ordinal(Head(sorted).Date) <= Ordinal(row.Date)
         THEN <<Head(sorted)>> \o Insert(row, Tail(sorted))
         ELSE <<row>> \o sorted

RECURSIVE sort_values(_)
\* DataFrame.sort_values('Date'): ascending by Date.  Rows that tie on Date
\* keep their order here; pandas leaves that order open, and it decides
\* nothing below (tied rows are only ever counted).
sort_values(df) ==
    IF df = << >> THEN << >>
    ELSE Insert(df[Len(df)], sort_values(SubSeq(df, 1, Len(df) - 1)))

\* how='left' in place of how='inner': a GHI row without a PR row is kept,
\* its PR missing (written 0)
MatchRowsLeft(g, pr) ==
    LET joined == [k \in 1 .. Len(pr) |->
                     [Date |-> pr[k].Date, GHI |-> g.GHI, PR |-> pr[k].PR]]
        hit(r) == r.Date = g.Date
    IN  IF \E k \in 1 .. Len(pr) : pr[k].Date = g.Date
        THEN SelectSeq(joined, hit)
        ELSE <<[Date |-> g.Date, GHI |-> g.GHI, PR |-> 0]>>

RECURSIVE MatchRows(_, _)
\* the PR rows joined to one GHI row
MatchRows(g, pr) ==
    IF pr = << >> THEN << >>
    ELSE (IF Head(pr).Date = g.Date
          THEN <<[Date |-> g.Date, GHI |-> g.GHI, PR |-> Head(pr).PR]>>
          ELSE << >>) \o MatchRows(g, Tail(pr))

RECURSIVE merge(_, _)
\* pd.merge(ghi, pr, on='Date', how='inner'): one row for every pair of a
\* GHI row and a PR row with equal Date, in the order of the GHI rows
merge(ghi, pr) ==
    IF ghi = << >> THEN << >>
    ELSE MatchRows(Head(ghi), pr) \o merge(Tail(ghi), pr)

(***************************************************************************)
(* preprocessing()                                                         *)
(***************************************************************************)
\* one parsed file of the GHI directory: Date strings turned into Timestamps
ParseGhi(file) ==
    [i \in 1 .. Len(file) |->
        [Date |-> to_datetime(file[i].Date), GHI |-> file[i].GHI]]

ParsePr(file) ==
    [i \in 1 .. Len(file) |->
        [Date |-> to_datetime(file[i].Date), PR |-> file[i].PR]]

\* csvWalker on the GHI directory; defined when the directory has a file
csvWalkerGhi(dir) == concat([i \in 1 .. Len(dir) |-> ParseGhi(dir[i])])

csvWalkerPr(dir) == concat([i \in 1 .. Len(dir) |-> ParsePr(dir[i])])

\* pd.concat raises ValueError on an empty list
WalkRaises(dir) == dir = << >>

combinedData(ghi, pr) == sort_values(merge(csvWalkerGhi(ghi), csvWalkerPr(pr)))

\* to_csv(index=False): the rows without their index, dates as text
to_csv(df) ==
    [i \in 1 .. Len(df) |->
        [Date |-> to_csv_date(df[i].Date), GHI |-> df[i].GHI, PR |-> df[i].PR]]

preprocessing ==
    /\ pc = "preprocessing"
    /\ ~ WalkRaises(ghiDir)
    /\ ~ WalkRaises(prDir)
    /\ combinedCsv' = Some(to_csv(combinedData(ghiDir, prDir)))
    /\ pc' = "plotter"
    /\ UNCHANGED <<ghiDir, prDir, argStart, argEnd, startDate, endDate,
                   csvData, PR_30avg, Budget, colors, pointsAboveBudget,
                   totalPoints, percTotalPoints, stdout, savedFig, raised>>

\* a directory without a csv file: the ValueError of pd.concat leaves
\* preprocessing and main before anything is written
preprocessingRaises ==
    /\ pc = "preprocessing"
    /\ WalkRaises(ghiDir) \/ WalkRaises(prDir)
    /\ raised' = Some("ValueError")
    /\ pc' = "error"
    /\ UNCHANGED <<ghiDir, prDir, argStart, argEnd, combinedCsv, startDate,
                   endDate, csvData, PR_30avg, Budget, colors,
                   pointsAboveBudget, totalPoints, percTotalPoints, stdout,
                   savedFig>>

(***************************************************************************)
(* plotter(startDate, endDate)                                             *)
(***************************************************************************)
\* pd.read_csv('combined.csv') followed by the to_datetime of the Date
\* column: the rows get the fresh index labels 0, 1, 2, ...
read_csv(file) ==
    [i \in 1 .. Len(file) |->
        [idx |-> i - 1, Date |-> to_datetime(file[i].Date),
         GHI |-> file[i].GHI, PR |-> file[i].PR]]

\* '>' in place of '>=' for the lower bound
InRangeOpen(row, start, end) ==
    /\ Ordinal(row.Date) > Ordinal(start)
    /\ Ordinal(row.Date) <= Ordinal(end)

InRange(row, start, end) ==
    /\ Ordinal(row.Date) >= Ordinal(start)
    /\ Ordinal(row.Date) <= Ordinal(end)

fetchCsvData(start, end, file) ==
    LET data == read_csv(file)
        keep(row) == InRange(row, start[1], end[1])
    IN  IF start # None /\ end # None
        THEN sort_values(SelectSeq(data, keep))
        ELSE sort_values(data)

\* lines 79-81
plotterFetch ==
    /\ pc = "plotter"
    /\ startDate' = (IF argStart = None THEN None
                     ELSE Some(to_datetime(argStart[1])))
    /\ endDate' = (IF argEnd = None THEN None
                   ELSE Some(to_datetime(argEnd[1])))
    /\ csvData' = fetchCsvData(startDate', endDate', combinedCsv[1])
    /\ pc' = "fetched"
    /\ UNCHANGED <<ghiDir, prDir, argStart, argEnd, combinedCsv, PR_30avg,
                   Budget, colors, pointsAboveBudget, totalPoints,
                   percTotalPoints, stdout, savedFig, raised>>

\* a test that an empty frame does not meet: csvData is None
NoDataIsNone(df) == Len(df) < 0

\* len(csvData) == 0
NoData(df) == Len(df) = 0

\* lines 84-86
emptyReturn ==
    /\ pc = "fetched"
    /\ NoData(csvData)
    /\ stdout' = Append(stdout, "No Data for the given Date Range!")
    /\ pc' = "done"
    /\ UNCHANGED <<ghiDir, prDir, argStart, argEnd, combinedCsv, startDate,
                   endDate, csvData, PR_30avg, Budget, colors,
                   pointsAboveBudget, totalPoints, percTotalPoints, savedFig,
                   raised>>

\* csvData['Date'][0]: the Date of the row whose index label is 0
HasLabel(df, label) == \E i \in 1 .. Len(df) : df[i].idx = label

AtLabel(df, label) == df[CHOOSE i \in 1 .. Len(df) : df[i].idx = label].Date

\* lines 89-91: a Timestamp is truthy, None is not
defaultDates ==
    /\ pc = "fetched"
    /\ ~ NoData(csvData)
    /\ IF startDate = None /\ endDate = None
       THEN IF HasLabel(csvData, 0)
            THEN /\ startDate' = Some(AtLabel(csvData, 0))
                 /\ endDate' = Some(csvData[Len(csvData)].Date)
                 /\ pc' = "rolling"
                 /\ UNCHANGED raised
            ELSE /\ raised' = Some("KeyError")
                 /\ pc' = "error"
                 /\ UNCHANGED <<startDate, endDate>>
       ELSE /\ pc' = "rolling"
            /\ UNCHANGED <<startDate, endDate, raised>>
    /\ UNCHANGED <<ghiDir, prDir, argStart, argEnd, combinedCsv, csvData,
                   PR_30avg, Budget, colors, pointsAboveBudget, totalPoints,
                   percTotalPoints, stdout, savedFig>>

Window == 30

RECURSIVE SumPR(_, _, _)
SumPR(df, from, to) ==
    IF from > to THEN 0 ELSE df[from].PR + SumPR(df, from + 1, to)

\* line 94: rolling(window=30).mean(); missing until 30 rows are behind
rolling_mean(df) ==
    [i \in 1 .. Len(df) |->
        IF i < Window THEN None
        ELSE Some([num |-> SumPR(df, i - Window + 1, i), den |-> Window])]

rollingAverage ==
    /\ pc = "rolling"
    /\ PR_30avg' = Some(rolling_mean(csvData))
    /\ pc' = "budget"
    /\ UNCHANGED <<ghiDir, prDir, argStart, argEnd, combinedCsv, startDate,
                   endDate, csvData, Budget, colors, pointsAboveBudget,
                   totalPoints, percTotalPoints, stdout, savedFig, raised>>

\* initialBudget = 73.9, in tenths
initialBudget == 739

\* 1 - reduceRate = 0.992 = 124/125
keepNum == 124

keepDen == 125

RECURSIVE Pow(_, _)
Pow(b, n) == IF n = 0 THEN 1 ELSE b * Pow(b, n - 1)

\* line 73
elapsedYears(date, start) ==
    (date.year - start.year) + ((date.month - start.month) \div 12)

\* line 74: initialBudget * (1 - reduceRate) ** year, as an exact fraction
budgetOf(year) ==
    IF year >= 0
    THEN [num |-> initialBudget * Pow(keepNum, year), den |-> Pow(keepDen, year)]
    ELSE [num |-> initialBudget * Pow(keepDen, 0 - year),
          den |-> Pow(keepNum, 0 - year)]

budgetValues(df, start) ==
    [i \in 1 .. Len(df) |-> budgetOf(elapsedYears(df[i].Date, start))]

\* line 97
budgetStep ==
    /\ pc = "budget"
    /\ startDate # None
    /\ Budget' = Some(budgetValues(csvData, startDate[1]))
    /\ pc' = "colors"
    /\ UNCHANGED <<ghiDir, prDir, argStart, argEnd, combinedCsv, startDate,
                   endDate, csvData, PR_30avg, colors, pointsAboveBudget,
                   totalPoints, percTotalPoints, stdout, savedFig, raised>>

\* line 73 with startDate = None: None has no attribute 'year'
budgetRaises ==
    /\ pc = "budget"
    /\ startDate = None
    /\ raised' = Some("AttributeError")
    /\ pc' = "error"
    /\ UNCHANGED <<ghiDir, prDir, argStart, argEnd, combinedCsv, startDate,
                   endDate, csvData, PR_30avg, Budget, colors,
                   pointsAboveBudget, totalPoints, percTotalPoints, stdout,
                   savedFig>>

\* line 99: pd.cut with bins [-inf, 2, 4, 6, inf]; the bins are closed on
\* the right, which is the default of pd.cut
cut(ghi) ==
    IF ghi <= 2 THEN "navy"
    ELSE IF ghi <= 4 THEN "lightblue"
    ELSE IF ghi <= 6 THEN "orange"
    ELSE "brown"

colorStep ==
    /\ pc = "colors"
    /\ colors' = Some([i \in 1 .. Len(csvData) |-> cut(csvData[i].GHI)])
    /\ pc' = "compliance"
    /\ UNCHANGED <<ghiDir, prDir, argStart, argEnd, combinedCsv, startDate,
                   endDate, csvData, PR_30avg, Budget, pointsAboveBudget,
                   totalPoints, percTotalPoints, stdout, savedFig, raised>>

\* '>=' in place of '>'
AboveOrEqual(pr, budget) == pr * budget.den >= budget.num

\* csvData['PR'] > csvData['Budget'] for one row
Above(pr, budget) == pr * budget.den > budget.num

RECURSIVE CountAbove(_, _)
CountAbove(df, budget) ==
    IF df = << >> THEN 0
    ELSE (IF Above(Head(df).PR, Head(budget)) THEN 1 ELSE 0)
         + CountAbove(Tail(df), Tail(budget))

\* lines 111-113; the quotient is kept as the fraction num/den (numpy
\* gives nan, not an exception, for a zero totalPoints: den = 0 here)
complianceStep ==
    /\ pc = "compliance"
    /\ pointsAboveBudget' = Some(CountAbove(csvData, Budget[1]))
    /\ totalPoints' = Some(Len(csvData))
    /\ percTotalPoints' =
           Some([num |-> pointsAboveBudget'[1] * 100, den |-> totalPoints'[1]])
    /\ pc' = "savefig"
    /\ UNCHANGED <<ghiDir, prDir, argStart, argEnd, combinedCsv, startDate,
                   endDate, csvData, PR_30avg, Budget, colors, stdout,
                   savedFig, raised>>

\* the file name of line 161
plotName(start, end) == [from |-> to_csv_date(start), to |-> to_csv_date(end)]

\* lines 156-161
saveFig ==
    /\ pc = "savefig"
    /\ endDate # None
    /\ savedFig' = Some(plotName(startDate[1], endDate[1]))
    /\ pc' = "done"
    /\ UNCHANGED <<ghiDir, prDir, argStart, argEnd, combinedCsv, startDate,
                   endDate, csvData, PR_30avg, Budget, colors,
                   pointsAboveBudget, totalPoints, percTotalPoints, stdout,
                   raised>>

\* line 156 with endDate = None: None has no attribute 'date'
saveFigRaises ==
    /\ pc = "savefig"
    /\ endDate = None
    /\ raised' = Some("AttributeError")
    /\ pc' = "error"
    /\ UNCHANGED <<ghiDir, prDir, argStart, argEnd, combinedCsv, startDate,
                   endDate, csvData, PR_30avg, Budget, colors,
                   pointsAboveBudget, totalPoints, percTotalPoints, stdout,
                   savedFig>>

(***************************************************************************)
(* Inputs and specification                                                *)
(***************************************************************************)
\* a directory: up to n csv files drawn from a set of files
Dirs(files, n) == UNION {[1 .. k -> files] : k \in 0 .. n}

\* daily files: a header alone, or a header and one record.  csvWalker
\* concatenates the files, so longer files add no behaviour.
GhiDaily == {<< >>} \cup {<<[Date |-> d, GHI |-> 3]>> : d \in DateStrings}

PrDaily == {<< >>} \cup {<<[Date |-> d, PR |-> 740]>> : d \in DateStrings}

\* one file with a reading on the first and on the last date
GhiYearly ==
    {<<[Date |-> 20201115, GHI |-> a], [Date |-> 20211120, GHI |-> b]>> :
        a \in GHIValues, b \in GHIValues}

PrYearly ==
    {<<[Date |-> 20201115, PR |-> a], [Date |-> 20211120, PR |-> b]>> :
        a \in PRValues, b \in PRValues}

\* --start_date / --end_date: absent, or a date
Args == {None} \cup {Some(d) : d \in DateStrings}

Start ==
    /\ pc = "preprocessing"
    /\ combinedCsv = None
    /\ startDate = None
    /\ endDate = None
    /\ csvData = << >>
    /\ PR_30avg = None
    /\ Budget = None
    /\ colors = None
    /\ pointsAboveBudget = None
    /\ totalPoints = None
    /\ percTotalPoints = None
    /\ stdout = << >>
    /\ savedFig = None
    /\ raised = None

\* directories of up to MaxFiles files, no window
InitShapes ==
    /\ ghiDir \in Dirs(GhiDaily, MaxFiles)
    /\ prDir \in Dirs(PrDaily, MaxFiles)
    /\ argStart = None
    /\ argEnd = None

\* directories of up to two files, any window
InitWindows ==
    /\ ghiDir \in Dirs(GhiDaily, 2)
    /\ prDir \in Dirs(PrDaily, 2)
    /\ argStart \in Args
    /\ argEnd \in Args

\* directories of one file each, any readings, any window
InitReadings ==
    /\ ghiDir \in {<<f>> : f \in GhiYearly}
    /\ prDir \in {<<f>> : f \in PrYearly}
    /\ argStart \in Args
    /\ argEnd \in Args

Init == Start /\ (InitShapes \/ InitWindows \/ InitReadings)

Next ==
    \/ preprocessing
    \/ preprocessingRaises
    \/ plotterFetch
    \/ emptyReturn
    \/ defaultDates
    \/ rollingAverage
    \/ budgetStep
    \/ budgetRaises
    \/ colorStep
    \/ complianceStep
    \/ saveFig
    \/ saveFigRaises

Spec == Init /\ [][Next]_vars

(***************************************************************************)
(* Vocabulary of the properties                                            *)
(***************************************************************************)
\* the positions <<file, line>> of the records of a directory
DirCells(dir) ==
    UNION {{<<i, j>> : j \in 1 .. Len(dir[i])} : i \in 1 .. Len(dir)}

\* the date strings of the records of a directory
DirDates(dir) == {dir[c[1]][c[2]].Date : c \in DirCells(dir)}

\* how many records of a directory carry the date d
DirCount(dir, d) ==
    Cardinality({c \in DirCells(dir) : dir[c[1]][c[2]].Date = d})

CleanDir(dir) == \A d \in DirDates(dir) : DirCount(dir, d) = 1

\* preprocessing has written combined.csv
Written == combinedCsv # None

Combined == combinedCsv[1]

CombinedDates == {Combined[k].Date : k \in 1 .. Len(Combined)}

CombinedCount(d) ==
    Cardinality({k \in 1 .. Len(Combined) : Combined[k].Date = d})

\* fetchCsvData has returned
Fetched == Written /\ pc # "plotter"

BothArgs == argStart # None /\ argEnd # None

NoArgs == argStart = None /\ argEnd = None

OneArg == ~ BothArgs /\ ~ NoArgs

Rows == 1 .. Len(csvData)

\* the rows of csvData come from distinct lines of combined.csv, unchanged
FromCombined ==
    /\ \A i \in Rows :
          /\ csvData[i].idx + 1 \in 1 .. Len(Combined)
          /\ to_csv_date(csvData[i].Date) = Combined[csvData[i].idx + 1].Date
          /\ csvData[i].GHI = Combined[csvData[i].idx + 1].GHI
          /\ csvData[i].PR = Combined[csvData[i].idx + 1].PR
    /\ \A i \in Rows : \A j \in Rows : csvData[i].idx = csvData[j].idx => i = j

\* line k of combined.csv is among the rows of csvData
Selected(k) == \E i \in Rows : csvData[i].idx = k - 1

Ascending ==
    \A i \in Rows : \A j \in Rows :
        i < j => to_csv_date(csvData[i].Date) <= to_csv_date(csvData[j].Date)

(***************************************************************************)
(* C1: on source collections without a repeated date, the dates of the     *)
(* combined series are exactly the dates present in both the GHI and the   *)
(* PR collection, in strictly ascending order (so no date twice).          *)
(***************************************************************************)
C1_InnerJoinSorted ==
    (Written /\ CleanDir(ghiDir) /\ CleanDir(prDir)) =>
        /\ CombinedDates = DirDates(ghiDir) \cap DirDates(prDir)
        /\ \A k \in 1 .. Len(Combined) - 1 :
              Combined[k].Date < Combined[k + 1].Date

\* two common dates that the GHI directory lists in descending order, and a
\* GHI date without a PR record
C1_Witness ==
    /\ Written /\ CleanDir(ghiDir) /\ CleanDir(prDir)
    /\ Len(Combined) = 2
    /\ Len(ghiDir) = 2 /\ Len(ghiDir[1]) = 1 /\ Len(ghiDir[2]) = 1
    /\ ghiDir[1][1].Date > ghiDir[2][1].Date
    /\ DirDates(prDir) # DirDates(ghiDir)

(***************************************************************************)
(* C2 (as claimed): the combined series holds exactly one row per date     *)
(* present in both sources and none for any other date, for every input.   *)
(***************************************************************************)
C2_OneRowPerCommonDate ==
    Written =>
        \A d \in DateStrings :
            CombinedCount(d) =
                (IF d \in DirDates(ghiDir) \cap DirDates(prDir) THEN 1 ELSE 0)

(***************************************************************************)
(* C3: with both bounds supplied the selected series is exactly the rows   *)
(* of the combined series with start <= date <= end; with both absent it   *)
(* is every row; in both cases in ascending date order.                    *)
(***************************************************************************)
C3_RangeSelection ==
    (Fetched /\ ~ OneArg) =>
        /\ FromCombined
        /\ Ascending
        /\ \A k \in 1 .. Len(Combined) :
              Selected(k) <=>
                  \/ NoArgs
                  \/ /\ BothArgs
                     /\ argStart[1] <= Combined[k].Date
                     /\ Combined[k].Date <= argEnd[1]

\* a window that keeps a row dated exactly at its start and drops another
C3_Witness ==
    /\ Fetched /\ BothArgs
    /\ Len(Combined) = 2
    /\ Len(csvData) = 1
    /\ to_csv_date(csvData[1].Date) = argStart[1]
    /\ argStart[1] < argEnd[1]

(***************************************************************************)
(* C4 (as claimed): with exactly one of start/end supplied the invocation  *)
(* behaves as the one without parameters: full series, start and end       *)
(* resolved to the first and last date of the series, budget anchored at   *)
(* the first date, and the chart saved under those two dates.              *)
(***************************************************************************)
C4_OneArgAsNoArgs ==
    (OneArg /\ Fetched) =>
        /\ raised = None
        /\ Len(csvData) = Len(Combined)
        /\ (pc \in {"rolling", "budget", "colors", "compliance", "savefig",
                    "done"} /\ Len(csvData) > 0) =>
              /\ startDate = Some(csvData[1].Date)
              /\ endDate = Some(csvData[Len(csvData)].Date)
        /\ (Budget # None) =>
              Budget[1] = budgetValues(csvData, csvData[1].Date)
        /\ (pc = "done" /\ Len(csvData) > 0) =>
              savedFig = Some(plotName(csvData[1].Date,
                                       csvData[Len(csvData)].Date))

(***************************************************************************)
(* C5 (as claimed): the bands are closed on the left: ghi < 2 navy,        *)
(* 2 <= ghi < 4 lightblue, 4 <= ghi < 6 orange, ghi >= 6 brown.            *)
(***************************************************************************)
C5_LeftClosedBands ==
    (colors # None) =>
        \A i \in Rows :
            colors[1][i] =
                (IF csvData[i].GHI < 2 THEN "navy"
                 ELSE IF csvData[i].GHI < 4 THEN "lightblue"
                 ELSE IF csvData[i].GHI < 6 THEN "orange"
                 ELSE "brown")

(***************************************************************************)
(* C6 (as claimed): whenever the budget is computed, the first row of the  *)
(* selected series has elapsed_years = 0 and budget = 73.9.                *)
(***************************************************************************)
C6_AnchoredAtFirstRow ==
    (Budget # None) =>
        /\ elapsedYears(csvData[1].Date, startDate[1]) = 0
        /\ Budget[1][1].num = initialBudget * Budget[1][1].den

(***************************************************************************)
(* C7: the compliance percentage is 100 * (rows with pr strictly above     *)
(* their budget) / (rows), a row with pr equal to its budget is not        *)
(* counted, the value lies in [0, 100], and the computation is never       *)
(* reached with zero rows.                                                 *)
(***************************************************************************)
StrictlyAbove == {i \in Rows : csvData[i].PR * Budget[1][i].den > Budget[1][i].num}

AtBudget == {i \in Rows : csvData[i].PR * Budget[1][i].den = Budget[1][i].num}

C7_Compliance ==
    /\ (pc = "compliance") => Len(csvData) > 0
    /\ (percTotalPoints # None) =>
          /\ percTotalPoints[1].den = Len(csvData)
          /\ percTotalPoints[1].den > 0
          /\ percTotalPoints[1].num = 100 * Cardinality(StrictlyAbove)
          /\ pointsAboveBudget[1] <= Len(csvData) - Cardinality(AtBudget)
          /\ 0 <= percTotalPoints[1].num
          /\ percTotalPoints[1].num <= 100 * percTotalPoints[1].den

\* one row exactly at its budget, one above: 1 of 2 counted
C7_Witness ==
    /\ percTotalPoints # None
    /\ Len(csvData) = 2
    /\ Cardinality(AtBudget) = 1
    /\ Cardinality(StrictlyAbove) = 1
    /\ percTotalPoints[1] = [num |-> 100, den |-> 2]

(***************************************************************************)
(* C8: on an empty selection the invocation prints the diagnostic and      *)
(* returns; the rolling average, budget, classification and compliance     *)
(* are not computed and no image is saved.                                 *)
(***************************************************************************)
C8_EmptySelectionReturns ==
    (Fetched /\ Len(csvData) = 0) =>
        /\ pc \in {"fetched", "done"}
        /\ (pc = "done") => stdout = <<"No Data for the given Date Range!">>
        /\ PR_30avg = None
        /\ Budget = None
        /\ colors = None
        /\ pointsAboveBudget = None
        /\ percTotalPoints = None
        /\ savedFig = None
        /\ raised = None

\* a window that lies after the only date of a non-empty combined series
C8_Witness ==
    /\ Fetched /\ BothArgs
    /\ Len(Combined) = 1
    /\ Combined[1].Date < argStart[1]
    /\ argStart[1] <= argEnd[1]
    /\ Len(csvData) = 0
    /\ pc = "done"
    /\ stdout # << >>

(***************************************************************************)
(* C9 (as claimed): a source directory with no file, or whose files hold   *)
(* no row, makes preprocessing fail: combined.csv is not written and the   *)
(* plotting stage is not entered.                                          *)
(***************************************************************************)
NoRows(dir) == \A i \in 1 .. Len(dir) : Len(dir[i]) = 0

C9_NoInputFails ==
    (NoRows(ghiDir) \/ NoRows(prDir)) =>
        /\ ~ Written
        /\ pc \in {"preprocessing", "error"}

(***************************************************************************)
(* C10 (as claimed): every row given to the budget computation is dated at *)
(* or after the anchor start date, its elapsed_years is >= 0, its budget   *)
(* is at most 73.9, and the budget never increases along the series.       *)
(***************************************************************************)
C10_BudgetNonIncreasing ==
    (Budget # None) =>
        /\ \A i \in Rows :
              /\ Ordinal(csvData[i].Date) >= Ordinal(startDate[1])
              /\ elapsedYears(csvData[i].Date, startDate[1]) >= 0
              /\ Budget[1][i].num <= initialBudget * Budget[1][i].den
        /\ \A i \in Rows : \A j \in Rows :
              i < j => Budget[1][j].num * Budget[1][i].den
                           <= Budget[1][i].num * Budget[1][j].den

====
